---- MODULE Spec2Model ----
(***************************************************************************)
(* Model of agents/scripts/dispatcher.py (the tmux dispatcher: session     *)
(* setup, the polling loop of main with its completion detector, and the  *)
(* except/finally cleanup) together with the helpers of                    *)
(* agents/scripts/pane_parser.py.                                          *)
(*                                                                         *)
(* A line of the pane is a sequence of one-character strings, a snapshot   *)
(* (pane_output.splitlines()) is a sequence of lines.  Python's None is    *)
(* the empty tuple and a present value x is the one-element tuple <<x>>.   *)
(* Indices are 0-based as in the source.                                   *)
(***************************************************************************)
EXTENDS Integers, Sequences, FiniteSets, TLC

\* ------------------------------------------------------------------ bounds
MaxLines == 3
MaxPolls == 6

\* ------------------------------------------------------- program constants
STABLE_TIMER_POLLS == 5

\* send_keys calls before the loop: the codex launch, the one line of
\* PREDEFINED_PROMPT, and the extra Enter.
NumSendKeys == 3

\* ---------------------------------------------------------------- optional
None == <<>>
Some(x) == <<x>>
Val(o) == o[1]

\* ------------------------------------------------------------------- text
WorkedFor == <<"W", "o", "r", "k", "e", "d", " ", "f", "o", "r", " ">>

\* lines[idx] with a 0-based idx
At(ls, idx) == ls[idx + 1]

\* pattern pat occurs in s at the 1-based position i
MatchAt(s, i, pat) ==
    /\ i + Len(pat) - 1 <= Len(s)
    /\ \A j \in 1..Len(pat) : s[i + j - 1] = pat[j]

\* Python's  pat in s
Contains(s, pat) == \E i \in 1..(Len(s) - Len(pat) + 1) : MatchAt(s, i, pat)

IsSpace(c) == c = " "

\* not line.strip()
IsBlank(line) == \A i \in 1..Len(line) : IsSpace(line[i])

\* line.lstrip()
RECURSIVE lstrip(_)
lstrip(line) ==
    IF line /= <<>> /\ IsSpace(Head(line)) THEN lstrip(Tail(line)) ELSE line

\* Python's lines[from:to] for 0 <= from, to an optional index
Slice(ls, from, to) ==
    LET hi == IF to = None THEN Len(ls) ELSE Val(to)
    IN  IF from >= hi \/ from >= Len(ls) THEN <<>>
        ELSE SubSeq(ls, from + 1, IF hi > Len(ls) THEN Len(ls) ELSE hi)

\* "\n".join(body_lines)
RECURSIVE Join(_)
Join(body) ==
    IF body = <<>> THEN <<>>
    ELSE IF Len(body) = 1 THEN body[1]
    ELSE body[1] \o <<"\n">> \o Join(Tail(body))

\* ---------------------------------------------------- dispatcher.py helpers
RECURSIVE ScanWorkedFor(_, _)
ScanWorkedFor(ls, idx) ==
    IF idx < 0 THEN <<None, None>>
    ELSE IF Contains(At(ls, idx), WorkedFor)
         THEN <<Some(idx), Some(At(ls, idx))>>
         ELSE ScanWorkedFor(ls, idx - 1)

find_last_timer_line(ls) == ScanWorkedFor(ls, Len(ls) - 1)

\* (">", "\u203a"); the symbol "rsaquo" stands for the character U+203A
PromptMarkers == {">", "rsaquo"}

StartsWithPrompt(line) ==
    LET stripped == lstrip(line)
    IN  stripped /= <<>> /\ Head(stripped) \in PromptMarkers

RECURSIVE ScanPrompt(_, _)
ScanPrompt(ls, idx) ==
    IF idx >= Len(ls) THEN None
    ELSE IF StartsWithPrompt(At(ls, idx)) THEN Some(idx)
         ELSE ScanPrompt(ls, idx + 1)

find_prompt_line(ls, start_index) == ScanPrompt(ls, start_index + 1)

\* the position after the longest run of [^ ] that starts at position i
RECURSIVE RunEnd(_, _)
RunEnd(s, i) == IF i > Len(s) \/ s[i] = " " THEN i ELSE RunEnd(s, i + 1)

\* the greedy group ([^ ]+) starting at the 1-based position i
NonSpaceRun(s, i) == SubSeq(s, i, RunEnd(s, i) - 1)

\* re.search(r"Worked for ([^ ]+)", s): the leftmost match
RECURSIVE SearchWorkedFor(_, _)
SearchWorkedFor(s, i) ==
    IF i > Len(s) THEN None
    ELSE IF MatchAt(s, i, WorkedFor)
            /\ RunEnd(s, i + Len(WorkedFor)) > i + Len(WorkedFor)
         THEN Some(NonSpaceRun(s, i + Len(WorkedFor)))
         ELSE SearchWorkedFor(s, i + 1)

extract_timer_value(timer_line) ==
    IF timer_line = None \/ Val(timer_line) = <<>> THEN None
    ELSE SearchWorkedFor(Val(timer_line), 1)

\* while body_lines and not body_lines[0].strip(): body_lines.pop(0)
RECURSIVE PopLeadingBlanks(_)
PopLeadingBlanks(body) ==
    IF body /= <<>> /\ IsBlank(Head(body)) THEN PopLeadingBlanks(Tail(body))
    ELSE body

\* while body_lines and not body_lines[-1].strip(): body_lines.pop()
RECURSIVE PopTrailingBlanks(_)
PopTrailingBlanks(body) ==
    IF body /= <<>> /\ IsBlank(body[Len(body)])
    THEN PopTrailingBlanks(SubSeq(body, 1, Len(body) - 1))
    ELSE body

\* slip: the slice starts at the timer line itself
BodySlice_fromAnchor(ls, ti, pi) == Slice(ls, ti, pi)

\* lines[timer_index + 1 : prompt_index]
BodySlice(ls, ti, pi) == Slice(ls, ti + 1, pi)

TrimBody(body) == PopTrailingBlanks(PopLeadingBlanks(body))

\* --------------------------------------------------- pane_parser.py helpers
RECURSIVE pp_ScanPrompt(_, _)
pp_ScanPrompt(ls, idx) ==
    IF idx >= Len(ls) THEN None
    ELSE IF StartsWithPrompt(At(ls, idx)) THEN Some(idx)
         ELSE pp_ScanPrompt(ls, idx + 1)

\* slip: the scan starts at start_index itself
pp_find_prompt_line_fromStart(ls, start_index) ==
    pp_ScanPrompt(ls, IF start_index < 0 THEN 0 ELSE start_index)

pp_find_prompt_line(ls, start_index) == pp_ScanPrompt(ls, start_index + 1)

RECURSIVE pp_ScanWorkedFor(_, _)
pp_ScanWorkedFor(ls, idx) ==
    IF idx < 0 THEN None
    ELSE IF Contains(At(ls, idx), WorkedFor) THEN Some(idx)
         ELSE pp_ScanWorkedFor(ls, idx - 1)

find_last_worked_for_line(ls) == pp_ScanWorkedFor(ls, Len(ls) - 1)

\* slip: if instead of while
pp_PopLeadingBlanks_once(body) ==
    IF body /= <<>> /\ IsBlank(Head(body)) THEN Tail(body) ELSE body

RECURSIVE pp_PopLeadingBlanks(_)
pp_PopLeadingBlanks(body) ==
    IF body /= <<>> /\ IsBlank(Head(body))
    THEN pp_PopLeadingBlanks(Tail(body))
    ELSE body

RECURSIVE pp_PopTrailingBlanks(_)
pp_PopTrailingBlanks(body) ==
    IF body /= <<>> /\ IsBlank(body[Len(body)])
    THEN pp_PopTrailingBlanks(SubSeq(body, 1, Len(body) - 1))
    ELSE body

extract_body_lines(ls, start_index, prompt_index, include_start_line) ==
    IF start_index = None THEN <<>>
    ELSE LET end_index == IF prompt_index /= None THEN prompt_index
                          ELSE Some(Len(ls))
             slice_start == IF include_start_line THEN Val(start_index)
                            ELSE Val(start_index) + 1
         IN  pp_PopTrailingBlanks(
                 pp_PopLeadingBlanks(Slice(ls, slice_start, end_index)))

\* TIMER_PATTERN: \((?P<time>(?:\d+m )?\d+s) \u2022 esc to interrupt\)
\* the symbol "bullet" stands for the character U+2022
EscSuffix ==
    <<" ", "bullet", " ", "e", "s", "c", " ", "t", "o", " ",
      "i", "n", "t", "e", "r", "r", "u", "p", "t", ")">>

Digits == {"0", "1", "2", "3", "4", "5", "6", "7", "8", "9"}

\* the position after the longest run of \d that starts at position i
RECURSIVE DigitsEnd(_, _)
DigitsEnd(s, i) ==
    IF i > Len(s) \/ s[i] \notin Digits THEN i ELSE DigitsEnd(s, i + 1)

\* TIMER_PATTERN matched at the 1-based position i: the group "time" or None
TimerMatchAt(s, i) ==
    IF s[i] /= "(" THEN None
    ELSE LET d1 == DigitsEnd(s, i + 1)
             d2 == DigitsEnd(s, d1 + 2)
         IN  IF d1 = i + 1 \/ d1 > Len(s) THEN None
             ELSE IF /\ s[d1] = "m"
                     /\ d1 + 1 <= Len(s)
                     /\ s[d1 + 1] = " "
                     /\ d2 > d1 + 2
                     /\ d2 <= Len(s)
                     /\ s[d2] = "s"
                     /\ MatchAt(s, d2 + 1, EscSuffix)
                  THEN Some(SubSeq(s, i + 1, d2))
             ELSE IF s[d1] = "s" /\ MatchAt(s, d1 + 1, EscSuffix)
                  THEN Some(SubSeq(s, i + 1, d1))
             ELSE None

\* TIMER_PATTERN.search(s): the group "time" of the leftmost match, or None
RECURSIVE TimerSearch(_, _)
TimerSearch(s, i) ==
    IF i > Len(s) THEN None
    ELSE IF TimerMatchAt(s, i) /= None THEN TimerMatchAt(s, i)
    ELSE TimerSearch(s, i + 1)

RECURSIVE pp_ScanTimer(_, _)
pp_ScanTimer(ls, idx) ==
    IF idx < 0 THEN <<None, None>>
    ELSE IF TimerSearch(At(ls, idx), 1) /= None
         THEN <<Some(idx), Some(At(ls, idx))>>
         ELSE pp_ScanTimer(ls, idx - 1)

\* slip: the first matching line is returned
pp_find_last_timer_line_first(ls) ==
    LET matches == {i \in 0..(Len(ls) - 1) : TimerSearch(At(ls, i), 1) /= None}
        first == CHOOSE i \in matches : \A k \in matches : i <= k
    IN  IF matches = {} THEN <<None, None>>
        ELSE <<Some(first), Some(At(ls, first))>>

pp_find_last_timer_line(ls) == pp_ScanTimer(ls, Len(ls) - 1)

pp_extract_timer_value(timer_line) ==
    IF timer_line = None \/ Val(timer_line) = <<>> THEN None
    ELSE TimerSearch(Val(timer_line), 1)

\* ------------------------------------------------- the detector of main
\* slip: a changed timer line clears the counter instead of starting it at 1
NextStableCount_changeToZero(tl, last, cnt) ==
    IF tl = None THEN 0
    ELSE IF tl = last THEN cnt + 1
    ELSE 0

\* slip: a poll without a timer line leaves the counter as it was
NextStableCount_keepOnAbsent(tl, last, cnt) ==
    IF tl = None THEN cnt
    ELSE IF tl = last THEN cnt + 1
    ELSE 1

\* stable_timer_polls after the if/else on timer_line
NextStableCount(tl, last, cnt) ==
    IF tl = None THEN 0
    ELSE IF tl = last THEN cnt + 1
    ELSE 1

\* last_timer_line after the if/else on timer_line
NextLastTimerLine(tl, last) ==
    IF tl = None THEN None
    ELSE IF tl = last THEN last
    ELSE tl

\* slip: > instead of >=
Completes_late(tl, cnt) == tl /= None /\ cnt > STABLE_TIMER_POLLS

\* if stable_timer_polls >= STABLE_TIMER_POLLS (reached only with a timer line)
Completes(tl, cnt) == tl /= None /\ cnt >= STABLE_TIMER_POLLS

\* slip: no break after the final answer
PcAfterPoll_noBreak(done) == "poll"

\* break leaves the loop for the finally block; otherwise sleep and poll again
PcAfterPoll(done) == IF done THEN "finally" ELSE "poll"

\* ------------------------------------------------------------ the inputs
Line3s    == WorkedFor \o <<"3", "s">>
Line3sCtx == WorkedFor \o <<"3", "s", " ", "x">>
Line9s    == WorkedFor \o <<"9", "s">>
\* a "Worked for " line without a token: found as timer line, value None
LineBare  == WorkedFor
LineBlank == <<>>
LineText  == <<"a">>
LinePrompt == <<" ", ">">>

LinePool ==
    {Line3s, Line3sCtx, Line9s, LineBare, LineBlank, LineText, LinePrompt}

Snapshots == UNION {[1..n -> LinePool] : n \in 0..MaxLines}

\* ----------------------------------------------------------------- state
VARIABLES
    pc,                 \* position of main
    session_created,    \* main's flag
    session_alive,      \* the tmux session exists
    tmux_missing,       \* the tmux binary cannot be executed
    sends,              \* send_keys calls done
    stable_timer_polls, last_timer_line,
    timer_line, timer_value,    \* locals of the latest poll
    lines, timer_index,         \* snapshot and anchor of the completing poll
    body_lines, final_answer,
    emitted,            \* times the final answer was printed
    exc,                \* exception in flight
    reported,           \* message printed by an except clause
    log_attempted, log_written, kill_attempted,
    log_result,         \* how write_pane_log ended: "none" before the call
    capture_failed,     \* capture_pane raised at the top of an iteration
    pp_lines,           \* argument lines of a parser call
    pp_fn, pp_args, pp_result,  \* the parser call made and what it returned
    polls,              \* completed loop iterations
    changePoll,         \* last poll whose timer value was present and new
    presentRun,         \* consecutive latest polls with a timer line
    absentRun,          \* consecutive latest polls without a timer line
    appearances         \* polls with a timer line right after none (0, 1, many)

detector == <<stable_timer_polls, last_timer_line, timer_index, timer_line,
              timer_value, lines, body_lines, final_answer, emitted>>
counts == <<polls, changePoll, presentRun, absentRun, appearances>>
history == <<counts, capture_failed>>
cleanup == <<log_attempted, log_written, kill_attempted, log_result>>
parser == <<pp_lines, pp_fn, pp_args, pp_result>>
mainvars == <<pc, session_created, session_alive, tmux_missing, sends,
              detector, exc, reported, cleanup, history>>
vars == <<mainvars, parser>>

\* main before its try block
MainInit ==
    /\ pc = "start"
    /\ session_created = FALSE
    /\ session_alive = FALSE
    /\ tmux_missing \in BOOLEAN
    /\ sends = 0
    /\ stable_timer_polls = 0
    /\ last_timer_line = None
    /\ timer_index = None
    /\ timer_line = None
    /\ timer_value = None
    /\ lines = <<>>
    /\ body_lines = <<>>
    /\ final_answer = <<>>
    /\ emitted = 0
    /\ exc = "none"
    /\ reported = "none"
    /\ log_attempted = FALSE
    /\ log_written = FALSE
    /\ kill_attempted = FALSE
    /\ polls = 0
    /\ changePoll = 0
    /\ presentRun = 0
    /\ absentRun = 0
    /\ appearances = 0
    /\ log_result = "none"
    /\ capture_failed = FALSE

\* no parser call made
ParserIdle ==
    /\ pp_fn = "none"
    /\ pp_args = <<>>
    /\ pp_result = <<>>

Init ==
    /\ MainInit
    /\ pp_lines = <<>>
    /\ ParserIdle

\* run_tmux(..., check=True): returns, raises CalledProcessError on a
\* non-zero exit, or raises FileNotFoundError when there is no tmux binary
TmuxOutcomes == IF tmux_missing THEN {"fnf"} ELSE {"ok", "cpe", "fnf"}

ExcOf(r) == IF r = "cpe" THEN "CalledProcessError"
            ELSE IF r = "fnf" THEN "FileNotFoundError"
            ELSE "OSError"

\* an exception raised inside the try block
Raise(r) ==
    /\ exc' = ExcOf(r)
    /\ pc' = "except"
    /\ tmux_missing' = (tmux_missing \/ r = "fnf")

CreateSession ==
    /\ pc = "start"
    /\ \E r \in TmuxOutcomes :
        IF r = "ok"
        THEN /\ session_created' = TRUE
             /\ session_alive' = TRUE
             /\ pc' = "send"
             /\ UNCHANGED <<exc, tmux_missing>>
        ELSE /\ Raise(r)
             /\ UNCHANGED <<session_created, session_alive>>
    /\ UNCHANGED parser
    /\ UNCHANGED <<sends, detector, reported, cleanup, history>>

SendKeys ==
    /\ pc = "send"
    /\ \E r \in TmuxOutcomes :
        IF r = "ok"
        THEN /\ sends' = sends + 1
             /\ pc' = IF sends + 1 = NumSendKeys THEN "poll" ELSE "send"
             /\ UNCHANGED <<exc, tmux_missing>>
        ELSE /\ Raise(r)
             /\ UNCHANGED sends
    /\ UNCHANGED parser
    /\ UNCHANGED <<session_created, session_alive, detector, reported,
                   cleanup, history>>

\* one iteration of the while loop whose capture_pane succeeded
Poll(snap) ==
    /\ pc = "poll"
    /\ ~tmux_missing
    /\ polls < MaxPolls
    /\ \E found \in {find_last_timer_line(snap)} :
       \E tv \in {extract_timer_value(found[2])} :
       \E cnt \in {NextStableCount(found[2], last_timer_line,
                                    stable_timer_polls)} :
       LET ti == found[1]
           tl == found[2]
           done == Completes(tl, cnt)
           body == TrimBody(BodySlice(snap, Val(ti),
                                      find_prompt_line(snap, Val(ti))))
       IN  /\ timer_line' = tl
           /\ timer_value' = tv
           /\ stable_timer_polls' = cnt
           /\ last_timer_line' = NextLastTimerLine(tl, last_timer_line)
           /\ IF done
              THEN /\ lines' = snap
                   /\ timer_index' = ti
                   /\ body_lines' = body
                   /\ final_answer' = Join(body)
                   /\ emitted' = emitted + 1
              ELSE UNCHANGED <<lines, timer_index, body_lines, final_answer,
                               emitted>>
           /\ pc' = PcAfterPoll(done)
           /\ polls' = polls + 1
           /\ changePoll' = IF tv /= None /\ tv /= timer_value
                            THEN polls + 1 ELSE changePoll
           /\ presentRun' = IF tl /= None THEN presentRun + 1 ELSE 0
           /\ absentRun' = IF tl = None THEN absentRun + 1 ELSE 0
           /\ appearances' = IF tl /= None /\ presentRun = 0 /\ appearances < 2
                             THEN appearances + 1 ELSE appearances
    /\ UNCHANGED parser
    /\ UNCHANGED <<session_created, session_alive, tmux_missing, sends, exc,
                   reported, cleanup, capture_failed>>

\* capture_pane raises at the top of an iteration
CaptureFail ==
    /\ pc = "poll"
    /\ \E r \in TmuxOutcomes \ {"ok"} : Raise(r)
    /\ capture_failed' = TRUE
    /\ UNCHANGED parser
    /\ UNCHANGED <<session_created, session_alive, sends, detector, reported,
                   cleanup, counts>>

\* Ctrl+C anywhere inside the try block
Interrupt ==
    /\ pc \in {"start", "send", "poll"}
    /\ exc' = "KeyboardInterrupt"
    /\ pc' = "except"
    /\ UNCHANGED parser
    /\ UNCHANGED <<session_created, session_alive, tmux_missing, sends,
                   detector, reported, cleanup, history>>

\* slip: a failed capture is reported and the loop polls again
HandleException_retry ==
    /\ pc = "except"
    /\ reported' = exc
    /\ exc' = "none"
    /\ pc' = IF capture_failed THEN "poll" ELSE "finally"
    /\ UNCHANGED parser
    /\ UNCHANGED <<session_created, session_alive, tmux_missing, sends,
                   detector, cleanup, history>>

\* the three except clauses: each prints its message
HandleException ==
    /\ pc = "except"
    /\ reported' = exc
    /\ exc' = "none"
    /\ pc' = "finally"
    /\ UNCHANGED parser
    /\ UNCHANGED <<session_created, session_alive, tmux_missing, sends,
                   detector, cleanup, history>>

\* finally, session_created: write_pane_log; only CalledProcessError is caught
LogOutcomes == TmuxOutcomes \cup {"oserror"}

\* slip: no except clause around write_pane_log
WriteLog_uncaught ==
    /\ pc = "finally"
    /\ session_created
    /\ log_attempted' = TRUE
    /\ \E r \in LogOutcomes :
        /\ log_written' = (r = "ok")
        /\ log_result' = r
        /\ IF r = "ok"
           THEN /\ pc' = "kill"
                /\ UNCHANGED <<exc, tmux_missing>>
           ELSE /\ pc' = "propagated"
                /\ exc' = ExcOf(r)
                /\ tmux_missing' = (tmux_missing \/ r = "fnf")
    /\ UNCHANGED parser
    /\ UNCHANGED <<session_created, session_alive, sends, detector, reported,
                   kill_attempted, history>>

WriteLog ==
    /\ pc = "finally"
    /\ session_created
    /\ log_attempted' = TRUE
    /\ \E r \in LogOutcomes :
        /\ log_written' = (r = "ok")
        /\ log_result' = r
        /\ IF r \in {"ok", "cpe"}
           THEN /\ pc' = "kill"
                /\ UNCHANGED <<exc, tmux_missing>>
           ELSE /\ pc' = "propagated"
                /\ exc' = ExcOf(r)
                /\ tmux_missing' = (tmux_missing \/ r = "fnf")
    /\ UNCHANGED parser
    /\ UNCHANGED <<session_created, session_alive, sends, detector, reported,
                   kill_attempted, history>>

\* finally, not session_created
SkipLog ==
    /\ pc = "finally"
    /\ ~session_created
    /\ pc' = "kill"
    /\ UNCHANGED parser
    /\ UNCHANGED <<session_created, session_alive, tmux_missing, sends,
                   detector, exc, reported, cleanup, history>>

\* kill_session: run_tmux(..., check=False), then the closing print
KillSession ==
    /\ pc = "kill"
    /\ kill_attempted' = TRUE
    /\ \E r \in TmuxOutcomes \ {"cpe"} :
        IF r = "ok"
        THEN /\ session_alive' = FALSE
             /\ pc' = "returned"
             /\ UNCHANGED <<exc, tmux_missing>>
        ELSE /\ pc' = "propagated"
             /\ exc' = ExcOf(r)
             /\ tmux_missing' = TRUE
             /\ UNCHANGED session_alive
    /\ UNCHANGED parser
    /\ UNCHANGED <<session_created, sends, detector, reported, log_attempted,
                   log_written, log_result, history>>

Next ==
    \/ CreateSession
    \/ SendKeys
    \/ \E snap \in Snapshots : Poll(snap)
    \/ CaptureFail
    \/ Interrupt
    \/ HandleException
    \/ WriteLog
    \/ SkipLog
    \/ KillSession

Spec == Init /\ [][Next]_vars

\* ------------------------------------------------ the parser functions alone
Live3s    == <<"(", "3", "s">> \o EscSuffix
Live1m3s  == <<"W", "(", "1", "m", " ", "3", "s">> \o EscSuffix
\* minutes without seconds: no timer
LiveMiss  == <<"(", "3", "m">> \o EscSuffix
LineSpaces == <<" ">>
LineRsaquo == <<"rsaquo", "a">>

PanePool == {Live3s, Live1m3s, LiveMiss, Line3s, LineBare, LineBlank,
             LineSpaces, LinePrompt, LineRsaquo}

PaneSnapshots == UNION {[1..n -> PanePool] : n \in 0..MaxLines}

ParseInit ==
    /\ MainInit
    /\ ~tmux_missing
    /\ pp_lines \in PaneSnapshots
    /\ ParserIdle

\* pane_parser.find_last_timer_line(pp_lines)
PP_FindLastTimerLine ==
    /\ pp_fn = "none"
    /\ pp_fn' = "find_last_timer_line"
    /\ pp_args' = <<>>
    /\ pp_result' = pp_find_last_timer_line(pp_lines)
    /\ UNCHANGED <<mainvars, pp_lines>>

\* pane_parser.find_prompt_line(pp_lines, start_index)
PP_FindPromptLine(start_index) ==
    /\ pp_fn = "none"
    /\ pp_fn' = "find_prompt_line"
    /\ pp_args' = <<start_index>>
    /\ pp_result' = pp_find_prompt_line(pp_lines, start_index)
    /\ UNCHANGED <<mainvars, pp_lines>>

\* pane_parser.extract_body_lines(pp_lines, start_index, prompt_index,
\* include_start_line); the function works on copies of its argument
PP_ExtractBodyLines(start_index, prompt_index, include_start_line) ==
    /\ pp_fn = "none"
    /\ pp_fn' = "extract_body_lines"
    /\ pp_args' = <<start_index, prompt_index, include_start_line>>
    /\ pp_result' = extract_body_lines(pp_lines, Some(start_index),
                                       prompt_index, include_start_line)
    /\ pp_lines' = pp_lines
    /\ UNCHANGED mainvars

\* pane_parser: find_last_timer_line, then extract_timer_value on its line
PP_TimerPair ==
    /\ pp_fn = "none"
    /\ pp_fn' = "pane_parser_timer"
    /\ pp_args' = <<>>
    /\ pp_result' = <<pp_find_last_timer_line(pp_lines)[2],
                      pp_extract_timer_value(
                          pp_find_last_timer_line(pp_lines)[2])>>
    /\ UNCHANGED <<mainvars, pp_lines>>

\* dispatcher: find_last_timer_line, then extract_timer_value on its line
D_TimerPair ==
    /\ pp_fn = "none"
    /\ pp_fn' = "dispatcher_timer"
    /\ pp_args' = <<>>
    /\ pp_result' = <<find_last_timer_line(pp_lines)[2],
                      extract_timer_value(find_last_timer_line(pp_lines)[2])>>
    /\ UNCHANGED <<mainvars, pp_lines>>

ParseNext ==
    \/ PP_FindLastTimerLine
    \/ \E start_index \in (0 - 1)..Len(pp_lines) :
           PP_FindPromptLine(start_index)
    \/ \E start_index \in 0..Len(pp_lines) :
       \E prompt_index \in
             {None} \cup {Some(e) : e \in start_index..Len(pp_lines)} :
       \E include_start_line \in BOOLEAN :
           PP_ExtractBodyLines(start_index, prompt_index, include_start_line)
    \/ PP_TimerPair
    \/ D_TimerPair

ParseSpec == ParseInit /\ [][ParseNext]_vars

\* python dispatcher.py: status 0 when main returns, 1 when an exception
\* leaves main
ExitStatus == IF pc = "propagated" THEN 1 ELSE 0

\* ------------------------------------------------------------ vocabulary
\* main has printed the final answer and left the loop
Completed == emitted >= 1

\* length of the run of latest polls that carried the same present timer value
SameValueRun == IF timer_value /= None THEN polls - changePoll + 1 ELSE 0

\* the step is one iteration of the polling loop
PollStep == polls' = polls + 1

IsTimerLine(line) == Contains(line, WorkedFor)

Min(S) == CHOOSE x \in S : \A y \in S : x <= y
Max(S) == CHOOSE x \in S : \A y \in S : x >= y

\* ls[lo..hi] (0-based, inclusive) without its leading and trailing blank
\* lines, by position
TrimmedRange(ls, lo, hi) ==
    LET nonblank == {i \in lo..hi : ~IsBlank(At(ls, i))}
    IN  IF nonblank = {} THEN <<>>
        ELSE [k \in 1..(Max(nonblank) - Min(nonblank) + 1) |->
                 At(ls, Min(nonblank) + k - 1)]

\* --------------------------------------------------------------------- C1
\* C1: when every poll so far yielded the same present timer value, main is
\* Completed exactly from poll STABLE_TIMER_POLLS on and never polls past it;
\* and a completion with a present timer value comes only after
\* STABLE_TIMER_POLLS polls in a row with that value.
C1_CompletesAtThreshold ==
    /\ (polls >= 1 /\ timer_value /= None /\ changePoll = 1)
          => /\ polls <= STABLE_TIMER_POLLS
             /\ Completed <=> polls = STABLE_TIMER_POLLS
    /\ (Completed /\ timer_value /= None)
          => SameValueRun >= STABLE_TIMER_POLLS

\* --------------------------------------------------------------------- C2
\* C2: a poll whose timer is present with a value different from the one of
\* the previous poll sets the stable counter to exactly 1 and remembers the
\* new timer; a completion is at least STABLE_TIMER_POLLS - 1 polls after
\* the last such change.
C2_ChangeResetsToOne ==
    /\ [][(PollStep /\ timer_line' /= None /\ timer_value' /= timer_value)
            => (stable_timer_polls' = 1 /\ last_timer_line' = timer_line')]_vars
    /\ [](Completed => polls >= changePoll + STABLE_TIMER_POLLS - 1)

\* the timer was present all along, its value changed at a poll k >= 2 and
\* main completed at poll k + STABLE_TIMER_POLLS - 1
C2_Witness ==
    /\ Completed
    /\ presentRun = polls
    /\ changePoll >= 2
    /\ polls = changePoll + STABLE_TIMER_POLLS - 1

\* --------------------------------------------------------------------- C3
\* C3: once a timer has been seen, STABLE_TIMER_POLLS polls in a row without
\* a timer make main Completed.
C3_AbsenceCompletes ==
    (appearances >= 1 /\ absentRun >= STABLE_TIMER_POLLS) => Completed

\* --------------------------------------------------------------------- C4
\* C4: between two consecutive polls that both carry a timer value, the
\* stable counter is incremented exactly when the two values are equal,
\* whatever the rest of the two timer lines.
C4_StableByToken ==
    [][(PollStep /\ timer_value /= None /\ timer_value' /= None)
         => ((timer_value' = timer_value)
               <=> (stable_timer_polls' = stable_timer_polls + 1))]_vars

\* --------------------------------------------------------------------- C5
\* C5: a poll without a timer sets the stable counter to 0 and forgets the
\* remembered timer; the first poll with a timer after such a poll has the
\* counter at 1; a completion has STABLE_TIMER_POLLS polls with a timer
\* right before it.
C5_AbsenceResets ==
    /\ [][(PollStep /\ timer_line' = None)
            => (stable_timer_polls' = 0 /\ last_timer_line' = None)]_vars
    /\ [][(PollStep /\ polls >= 1 /\ timer_line = None /\ timer_line' /= None)
            => stable_timer_polls' = 1]_vars
    /\ [](Completed => presentRun >= STABLE_TIMER_POLLS)

\* a timer was seen, disappeared, and has just reappeared
C5_Witness ==
    /\ appearances = 2
    /\ presentRun = 1
    /\ polls >= 3
    /\ stable_timer_polls = 1
    /\ pc = "poll"

\* --------------------------------------------------------------------- C6
\* C6: at completion the anchor is the index of the last timer line of the
\* completing snapshot, and the answer is the lines after the anchor and
\* before the first prompt line after it (or the end), without leading and
\* trailing blank lines; no line of the answer is a timer or a prompt line.
C6_StableAnswer ==
    Completed =>
        LET n == Len(lines)
            anchor == Max({i \in 0..(n - 1) : IsTimerLine(At(lines, i))})
            prompts == {i \in (anchor + 1)..(n - 1) :
                           StartsWithPrompt(At(lines, i))}
            stop == IF prompts = {} THEN n ELSE Min(prompts)
        IN  /\ timer_index = Some(anchor)
            /\ body_lines = TrimmedRange(lines, anchor + 1, stop - 1)
            /\ final_answer = Join(TrimmedRange(lines, anchor + 1, stop - 1))
            /\ \A k \in 1..Len(body_lines) :
                   /\ ~IsTimerLine(body_lines[k])
                   /\ ~StartsWithPrompt(body_lines[k])

\* completion on a snapshot "timer, text, prompt": the answer is the text
C6_Witness ==
    /\ Completed
    /\ Len(lines) = 3
    /\ timer_index = Some(0)
    /\ StartsWithPrompt(lines[3])
    /\ body_lines = <<lines[2]>>
    /\ ~IsBlank(lines[2])

\* --------------------------------------------------------------------- C7
\* C7: at the STABLE_TIMER_POLLS-th poll in a row without a timer the answer
\* is emitted: from the last "Worked for " line (included) to the first
\* prompt line after it when there is such a line, else the whole snapshot
\* without leading and trailing blank lines.
C7_AbsenceAnswer ==
    (appearances >= 1 /\ absentRun >= STABLE_TIMER_POLLS) =>
        /\ emitted = 1
        /\ LET anchor == find_last_worked_for_line(lines)
           IN  body_lines =
                 IF anchor /= None
                 THEN extract_body_lines(lines, anchor,
                          pp_find_prompt_line(lines, Val(anchor)), TRUE)
                 ELSE TrimmedRange(lines, 0, Len(lines) - 1)

\* --------------------------------------------------------------------- C8
\* C8: the final answer is printed at most once, and once it is printed no
\* step polls again or changes the stable counter, the remembered timer
\* line or the answer.
C8_CompletedTerminal ==
    /\ [](emitted <= 1)
    /\ [][Completed =>
            /\ polls' = polls
            /\ emitted' = emitted
            /\ stable_timer_polls' = stable_timer_polls
            /\ last_timer_line' = last_timer_line
            /\ final_answer' = final_answer]_vars

\* main completed and then ran its cleanup to the end
C8_Witness ==
    /\ Completed
    /\ pc = "returned"
    /\ polls = STABLE_TIMER_POLLS

\* --------------------------------------------------------------------- C9
\* C9: when the session was created, main ends (returns or lets an
\* exception out) only after kill_session was called.
C9_TeardownOnEveryExit ==
    (session_created /\ pc \in {"returned", "propagated"}) => kill_attempted

\* -------------------------------------------------------------------- C10
\* C10: when a fault (missing binary, failed tmux command) has been
\* reported, the log write (for a created session) and kill_session were
\* attempted before, and the session is not alive.
C10_CleanupBeforeReport ==
    reported \in {"FileNotFoundError", "CalledProcessError"}
        => /\ kill_attempted
           /\ session_created => log_attempted
           /\ ~session_alive

\* -------------------------------------------------------------------- C11
\* C11: a run that ended because of a fault (a reported missing binary or
\* failed tmux command, or an exception that left main) has a non-zero exit
\* status; a run that ended without one, after the final answer or a user
\* interrupt, has exit status 0.
C11_ExitStatus ==
    pc \in {"returned", "propagated"} =>
        LET faulted ==
                \/ reported \in {"FileNotFoundError", "CalledProcessError"}
                \/ pc = "propagated"
        IN  /\ faulted => ExitStatus /= 0
            /\ ~faulted => ExitStatus = 0

\* -------------------------------------------------------------------- C12
\* C12: the step in which capture_pane fails in the loop leaves the poll
\* count, the stable counter and the remembered timer line as they were;
\* after it no step polls or changes them, and the final answer is never
\* printed.
C12_CaptureFailureEndsLoop ==
    /\ [][capture_failed' =>
            /\ polls' = polls
            /\ stable_timer_polls' = stable_timer_polls
            /\ last_timer_line' = last_timer_line
            /\ emitted' = emitted]_vars
    /\ [](capture_failed => ~Completed)

\* a capture failed after some polls had counted a timer, and main ended
C12_Witness ==
    /\ capture_failed
    /\ polls >= 2
    /\ stable_timer_polls >= 2
    /\ pc = "returned"

\* -------------------------------------------------------------------- C13
\* C13: with no capture failure and no interrupt, main is no longer polling
\* once STABLE_TIMER_POLLS polls in a row showed no timer, or showed the same
\* timer value: the thresholds end the loop.
C13_ThresholdsEndLoop ==
    ~(/\ pc = "poll"
      /\ \/ absentRun >= STABLE_TIMER_POLLS
         \/ SameValueRun >= STABLE_TIMER_POLLS)

\* -------------------------------------------------------------------- C17
\* C17: between iterations and after the loop, stable_timer_polls is within
\* 0..STABLE_TIMER_POLLS, it is 0 exactly when last_timer_line is None, and
\* it is below STABLE_TIMER_POLLS while main is still polling.
C17_LoopInvariant ==
    /\ stable_timer_polls \in 0..STABLE_TIMER_POLLS
    /\ stable_timer_polls = 0 <=> last_timer_line = None
    /\ pc = "poll" => stable_timer_polls < STABLE_TIMER_POLLS

\* loop exit by the break: the counter is at the threshold
C17_Witness ==
    /\ pc = "finally"
    /\ Completed
    /\ stable_timer_polls = STABLE_TIMER_POLLS
    /\ last_timer_line /= None

\* -------------------------------------------------------------------- C18
\* C18: past the log stage of the cleanup the log write was attempted exactly
\* when the session was created; a main that returned has called
\* kill_session, created session or not; a log write that failed with
\* CalledProcessError is followed by kill_session.
C18_CleanupSteps ==
    /\ [](pc \in {"kill", "returned", "propagated"}
            => (log_attempted <=> session_created))
    /\ [](pc = "returned" => kill_attempted)
    /\ [][(log_result' = "cpe" /\ log_result /= "cpe") => pc' = "kill"]_vars
    /\ [][pc = "kill" => kill_attempted']_vars

\* the log write failed with CalledProcessError and kill_session ran
C18_Witness ==
    /\ log_result = "cpe"
    /\ kill_attempted
    /\ ~session_alive
    /\ pc = "returned"

\* ------------------------------------------------- vocabulary, parser
AllDigits(t) == Len(t) >= 1 /\ \A k \in 1..Len(t) : t[k] \in Digits

\* t reads <digits>s
IsSeconds(t) ==
    Len(t) >= 2 /\ t[Len(t)] = "s" /\ AllDigits(SubSeq(t, 1, Len(t) - 1))

\* t reads <digits>s or <digits>m <digits>s
IsDuration(t) ==
    \/ IsSeconds(t)
    \/ \E k \in 2..(Len(t) - 3) :
          /\ t[k] = "m"
          /\ t[k + 1] = " "
          /\ AllDigits(SubSeq(t, 1, k - 1))
          /\ IsSeconds(SubSeq(t, k + 2, Len(t)))

\* line contains "(<duration> <bullet> esc to interrupt)"
HasLiveTimer(line) ==
    \E i \in 1..Len(line) :
        /\ line[i] = "("
        /\ \E j \in (i + 1)..Len(line) :
              /\ line[j] = "s"
              /\ MatchAt(line, j + 1, EscSuffix)
              /\ IsDuration(SubSeq(line, i + 1, j))

\* the first character of line that is not a space is a prompt glyph
HasPromptGlyph(line) ==
    \E k \in 1..Len(line) :
        /\ line[k] \in PromptMarkers
        /\ \A j \in 1..(k - 1) : line[j] = " "

\* -------------------------------------------------------------------- C14
\* C14: pane_parser.find_last_timer_line returns (i, lines[i]) for the highest
\* index i of a line with the live-timer pattern, and (None, None) when no
\* line has it.
C14_LastTimerLine ==
    pp_fn = "find_last_timer_line" =>
        LET matches == {i \in 0..(Len(pp_lines) - 1) :
                           HasLiveTimer(At(pp_lines, i))}
        IN  IF matches = {} THEN pp_result = <<None, None>>
            ELSE pp_result = <<Some(Max(matches)),
                               Some(At(pp_lines, Max(matches)))>>

\* two different timer lines with another line between: the later one wins
C14_Witness ==
    /\ pp_fn = "find_last_timer_line"
    /\ Len(pp_lines) = 3
    /\ HasLiveTimer(pp_lines[1])
    /\ ~HasLiveTimer(pp_lines[2])
    /\ HasLiveTimer(pp_lines[3])
    /\ pp_lines[1] /= pp_lines[3]
    /\ pp_result = <<Some(2), Some(pp_lines[3])>>

\* -------------------------------------------------------------------- C15
\* C15: find_prompt_line returns the smallest index above start_index of a
\* line whose text after leading spaces begins with a prompt glyph, and None
\* when there is no such line above start_index.
C15_FirstPromptAfter ==
    pp_fn = "find_prompt_line" =>
        LET prompts == {i \in (pp_args[1] + 1)..(Len(pp_lines) - 1) :
                           HasPromptGlyph(At(pp_lines, i))}
        IN  IF prompts = {} THEN pp_result = None
            ELSE pp_result = Some(Min(prompts))

\* a prompt line at start_index itself is passed over for the next one
C15_Witness ==
    /\ pp_fn = "find_prompt_line"
    /\ pp_args = <<0>>
    /\ Len(pp_lines) = 3
    /\ HasPromptGlyph(pp_lines[1])
    /\ ~HasPromptGlyph(pp_lines[2])
    /\ HasPromptGlyph(pp_lines[3])
    /\ pp_result = Some(2)

\* -------------------------------------------------------------------- C16
\* C16: extract_body_lines returns the lines from start_index + 1 (from
\* start_index with include_start_line) up to prompt_index excluded (to the
\* end without prompt_index), without the leading and trailing blank lines
\* and with the lines between kept in order; the result is empty or begins
\* and ends with a non-blank line; the argument list is not changed.
C16_BodyLines ==
    /\ [](pp_fn = "extract_body_lines" =>
            LET lo == IF pp_args[3] THEN pp_args[1] ELSE pp_args[1] + 1
                hi == IF pp_args[2] = None THEN Len(pp_lines) - 1
                      ELSE Val(pp_args[2]) - 1
            IN  /\ pp_result = TrimmedRange(pp_lines, lo, hi)
                /\ \/ pp_result = <<>>
                   \/ /\ ~IsBlank(pp_result[1])
                      /\ ~IsBlank(pp_result[Len(pp_result)]))
    /\ [][pp_fn' = "extract_body_lines" => pp_lines' = pp_lines]_vars

\* two leading blank lines are dropped, the start line being included
C16_Witness ==
    /\ pp_fn = "extract_body_lines"
    /\ pp_args = <<0, None, TRUE>>
    /\ Len(pp_lines) = 3
    /\ IsBlank(pp_lines[1])
    /\ IsBlank(pp_lines[2])
    /\ pp_result = <<pp_lines[3]>>

\* -------------------------------------------------------------------- C19
\* C19: for both pairs of functions, pane_parser's and the dispatcher's, the
\* line returned by find_last_timer_line is None exactly when
\* extract_timer_value of it is None.
C19_FinderExtractorAgree ==
    pp_fn \in {"pane_parser_timer", "dispatcher_timer"} =>
        (pp_result[1] = None <=> pp_result[2] = None)

====
